---- MODULE Spec2Model ----
(***************************************************************************)
(* EasyPars: the fight parser (package parser) and the /api/fights handler *)
(* that drives it.                                                         *)
(*                                                                         *)
(* Text is a sequence of one-character strings; the two HTML comment       *)
(* markers and the sentinel values are single tokens of such a sequence.   *)
(* A document is the tree goquery hands to the parser: tables of rows,     *)
(* rows of classed cells, a row possibly holding nested tables in a        *)
(* class-less last cell.                                                   *)
(***************************************************************************)
EXTENDS Integers, Sequences, FiniteSets, TLC

(***************************************************************************)
(* Bounds of the model.                                                    *)
(***************************************************************************)
\* tables and rows (nested ones included) of an enumerated document
MaxNodes == 5
\* candidates handed to processFightsConcurrently by the harness
MaxFights == 2
\* the latest reading of the system clock (time.Now), in nanoseconds
MaxClock == 1
\* requests served by one process
MaxRequests == 2

(***************************************************************************)
(* Program constants.                                                      *)
(***************************************************************************)
\* make(chan FightResult, 100)
ResultChannelCap == 100
\* make(chan []interface{}, 1)
ResultCollectorCap == 1

(***************************************************************************)
(* strings: TrimSpace, Split, Index, and the two regular expressions       *)
(***************************************************************************)
NoText == <<>>
UnknownLocation == <<"Unknown Location">>
UnknownFighter == <<"Unknown Fighter">>
TBD == <<"TBD">>
CommentOpen == "<!--"
CommentClose == "-->"

IsSpace(c) == c \in {" ", "\n", "\t"}

RECURSIVE TrimLeft(_)
TrimLeft(s) ==
    IF s = <<>> THEN <<>>
    ELSE IF IsSpace(Head(s)) THEN TrimLeft(Tail(s))
    ELSE s

RECURSIVE TrimRight(_)
TrimRight(s) ==
    IF s = <<>> THEN <<>>
    ELSE IF IsSpace(s[Len(s)]) THEN TrimRight(SubSeq(s, 1, Len(s) - 1))
    ELSE s

\* strings.TrimSpace
TrimSpace(s) == TrimRight(TrimLeft(s))

\* the index of the first c in s, 0 when there is none (strings.Index, 1-based)
IndexOf(s, c) ==
    LET hits == {i \in 1..Len(s) : s[i] = c}
    IN  IF hits = {} THEN 0 ELSE CHOOSE i \in hits : \A j \in hits : i <= j

\* strings.Split(s, "\n")[0]
FirstLine(s) ==
    LET nl == IndexOf(s, "\n")
    IN  IF nl = 0 THEN s ELSE SubSeq(s, 1, nl - 1)

\* regexp `<!--.*?-->` replaced by "": leftmost match, shortest extent, and
\* `.` does not match a newline
RECURSIVE StripComments(_)
StripComments(s) ==
    IF s = <<>> THEN <<>>
    ELSE IF Head(s) = CommentOpen
    THEN LET ends == {j \in 2..Len(s) :
                        /\ s[j] = CommentClose
                        /\ \A k \in 2..(j - 1) : s[k] # "\n"}
         IN  IF ends = {}
             THEN <<Head(s)>> \o StripComments(Tail(s))
             ELSE LET j == CHOOSE e \in ends : \A f \in ends : e <= f
                  IN  StripComments(SubSeq(s, j + 1, Len(s)))
    ELSE <<Head(s)>> \o StripComments(Tail(s))

\* regexp `\s+` replaced by " "
RECURSIVE CollapseSpace(_)
CollapseSpace(s) ==
    IF s = <<>> THEN <<>>
    ELSE IF IsSpace(Head(s))
    THEN <<" ">> \o CollapseSpace(TrimLeft(s))
    ELSE <<Head(s)>> \o CollapseSpace(Tail(s))

\* cleanLocationText
cleanLocationText(locationText) ==
    LET trimmed == TrimSpace(locationText)
        cleaned == TrimSpace(CollapseSpace(StripComments(trimmed)))
    IN  IF cleaned = NoText THEN UnknownLocation ELSE cleaned

(***************************************************************************)
(* goquery selections over the document tree                               *)
(*   cell  [class, link, rest]: link is the text of the cell's first <a>   *)
(*         (NoLink when it has none), rest the cell's text after it        *)
(*   row   [cells, tables]: tables are nested in a class-less last cell    *)
(***************************************************************************)
NoLink == "nolink"

Cell(class, link, rest) == [class |-> class, link |-> link, rest |-> rest]
Row(cells, tables) == [cells |-> cells, tables |-> tables]

RECURSIVE ConcatFrom(_, _)
ConcatFrom(ss, i) == IF i > Len(ss) THEN <<>> ELSE ss[i] \o ConcatFrom(ss, i + 1)

\* the concatenation of a sequence of sequences
Concat(ss) == ConcatFrom(ss, 1)

\* the td.<class> cells under a row, in document order: row.Find("td.<class>")
RECURSIVE FindTd(_, _)
FindTd(row, class) ==
    LET own == [i \in 1..Len(row.cells) |-> row.cells[i]]
        OfClass(c) == c.class = class
    IN  SelectSeq(own, OfClass)
          \o Concat([k \in 1..Len(row.tables) |->
                       Concat([i \in 1..Len(row.tables[k]) |->
                                 FindTd(row.tables[k][i], class)])])

CellText(c) == (IF c.link = NoLink THEN <<>> ELSE c.link) \o c.rest

\* Selection.Text(): the text of every node of the selection, concatenated
SelText(sel) == Concat([i \in 1..Len(sel) |-> CellText(sel[i])])

\* sel.Find("a").First().Text()
FirstLinkText(sel) ==
    LET linked == {i \in 1..Len(sel) : sel[i].link # NoLink}
    IN  IF linked = {} THEN <<>>
        ELSE sel[CHOOSE i \in linked : \A j \in linked : i <= j].link

\* the tables under `tables`, as paths <<t>>, <<t, i, k>>, ... (table t, its row i,
\* that row's nested table k, ...), in document order: doc.Find("table")
RECURSIVE FindTablePaths(_, _)
FindTablePaths(tables, prefix) ==
    Concat([t \in 1..Len(tables) |->
              <<prefix \o <<t>>>>
                \o Concat([i \in 1..Len(tables[t]) |->
                             FindTablePaths(tables[t][i].tables,
                                            prefix \o <<t, i>>)])])

\* the rows under the table at tpath, as paths: table.Find("tr")
RECURSIVE FindTrPaths(_, _)
FindTrPaths(table, tpath) ==
    Concat([i \in 1..Len(table) |->
              <<tpath \o <<i>>>>
                \o Concat([k \in 1..Len(table[i].tables) |->
                             FindTrPaths(table[i].tables[k],
                                         tpath \o <<i, k>>)])])

RECURSIVE TableAt(_, _)
TableAt(tables, path) ==
    IF Len(path) = 1 THEN tables[path[1]]
    ELSE TableAt(tables[path[1]][path[2]].tables, SubSeq(path, 3, Len(path)))

RECURSIVE RowAt(_, _)
RowAt(tables, path) ==
    IF Len(path) = 2 THEN tables[path[1]][path[2]]
    ELSE RowAt(tables[path[1]][path[2]].tables, SubSeq(path, 3, Len(path)))

(***************************************************************************)
(* Text Normalizer: formatDate, extractFighterName, extractResult          *)
(***************************************************************************)
Digits == <<"0", "1", "2", "3", "4", "5", "6", "7", "8", "9">>
IsDigit(c) == \E i \in 1..Len(Digits) : Digits[i] = c
DigitVal(c) == (CHOOSE i \in 1..Len(Digits) : Digits[i] = c) - 1

RECURSIVE DecVal(_)
DecVal(s) == IF s = <<>> THEN 0 ELSE 10 * DecVal(SubSeq(s, 1, Len(s) - 1)) + DigitVal(s[Len(s)])

\* strconv.Atoi: an optional sign, then one or more decimal digits
Atoi(s) ==
    LET signed == s # <<>> /\ Head(s) \in {"+", "-"}
        body == IF signed THEN Tail(s) ELSE s
        ok == body # <<>> /\ \A i \in 1..Len(body) : IsDigit(body[i])
    IN  [ok |-> ok,
         val |-> IF ~ok THEN 0
                 ELSE IF signed /\ Head(s) = "-" THEN 0 - DecVal(body)
                 ELSE DecVal(body)]

\* days from 1970-01-01 to the civil date y-m-d, m in 1..12, any d
DaysFromCivil(y, m, d) ==
    LET yy == IF m <= 2 THEN y - 1 ELSE y
        era == yy \div 400
        yoe == yy - era * 400
        mp == IF m > 2 THEN m - 3 ELSE m + 9
        doy == (153 * mp + 2) \div 5 + d - 1
        doe == yoe * 365 + yoe \div 4 - yoe \div 100 + doy
    IN  era * 146097 + doe - 719468

\* the civil date <<y, m, d>> of a day count from 1970-01-01
CivilFromDays(days) ==
    LET z == days + 719468
        era == z \div 146097
        doe == z - era * 146097
        yoe == (doe - doe \div 1460 + doe \div 36524 - doe \div 146096) \div 365
        doy == doe - (365 * yoe + yoe \div 4 - yoe \div 100)
        mp == (5 * doy + 2) \div 153
        d == doy - (153 * mp + 2) \div 5 + 1
        m == IF mp < 10 THEN mp + 3 ELSE mp - 9
        y == yoe + era * 400
    IN  <<IF m <= 2 THEN y + 1 ELSE y, m, d>>

\* a date built without time.Date's normalisation
timeDateUnnormalised(y, m, d) == <<y, m, d>>

\* time.Date(y, m, d, ...): a day outside the month is carried into the
\* neighbouring months; the result is the date "2006-01-02" prints, <<y, m, d>>
timeDate(y, m, d) == CivilFromDays(DaysFromCivil(y, m, 1) + d - 1)

\* formatDate; today is time.Now() as a date
formatDate(dayText, year, month, today) ==
    LET parsed == Atoi(TrimSpace(dayText))
    IN  IF ~parsed.ok THEN today ELSE timeDate(year, month, parsed.val)

\* extractFighterName, on the selection of td.boxer_N cells
extractFighterName(cell) ==
    LET linkText == TrimSpace(FirstLinkText(cell))
        fullText == TrimSpace(SelText(cell))
        fighterName == TrimSpace(FirstLine(fullText))
        idx == IndexOf(fighterName, "(")
    IN  IF linkText # NoText THEN linkText
        ELSE IF idx # 0 THEN TrimSpace(SubSeq(fighterName, 1, idx - 1))
        ELSE fighterName

\* extractResult, on the selection of td.vs cells
extractResult(cell) ==
    LET resultText == CollapseSpace(TrimSpace(SelText(cell)))
    IN  IF resultText = NoText THEN TBD ELSE resultText

(***************************************************************************)
(* State                                                                   *)
(***************************************************************************)
VARIABLES
    \* the system clock: today's date, and the UnixNano reading
    today, now,
    \* the request being served by handleGetFights, counted from 1
    request,
    \* the goroutine of the request: where it is, the document it fetched,
    \* what ParseFights returned to the handler, and the JSON response
    mpc, doc, returned, response,
    \* the answer p.HTTPClient.Do got for the request
    resp,
    \* extractFightElements: the selections doc.Find("table") and
    \* table.Find("tr") as paths, the callbacks' position in them, the
    \* captured year and month, currentLocation, and fightEvents
    tableSel, rowSel, tableIndex, rowIndex, currentYear, currentMonth,
    currentLocation, fightEvents,
    \* for each element of fightEvents, the <<tableIndex, rowIndex>> it was
    \* appended at
    emittedAt,
    \* the Parser of the request: idCounter, idMutex (the worker holding it,
    \* 0 when free), ResultChannel and the WaitGroup's counter
    idCounter, idMutex, ResultChannel, WaitGroup,
    \* the parseSingleFight goroutines, one per candidate: where each is, the
    \* ID generateUniqueID gave it, and the FightResult it is about to send
    wpc, wid, wresult,
    \* the collector goroutine: where it is, its loop index i, the element of
    \* an append still to be stored, the shared slice `results` (its length
    \* word and its backing array), and the channel resultCollector
    cpc, ci, cfight, resultsLen, resultsArr, resultCollector,
    \* what has happened so far: every ID issued, with its request, its
    \* worker and the clock reading at the call; the number of FightResults each worker has sent; the number
    \* of per-receive timeouts of the collector
    issued, sent, timeouts

extractVars == <<tableSel, rowSel, tableIndex, rowIndex, currentYear, currentMonth, currentLocation,
                 fightEvents, emittedAt>>
parserVars == <<idCounter, idMutex, ResultChannel, WaitGroup>>
workerVars == <<wpc, wid, wresult>>
collectorVars == <<cpc, ci, cfight, resultsLen, resultsArr, resultCollector>>
historyVars == <<issued, sent, timeouts>>
procVars == <<parserVars, workerVars, collectorVars, historyVars>>
vars == <<today, now, request, mpc, resp, doc, returned, response, extractVars, procVars>>

(***************************************************************************)
(* Row-Context Extractor: extractFightElements                             *)
(***************************************************************************)
FightEvent(location, date, fighter1, fighter2, result, row) ==
    [Location |-> location, Date |-> date, Fighter1 |-> fighter1,
     Fighter2 |-> fighter2, Result |-> result, Row |-> row]

\* currentLocation := "" at the start of every table callback
InitialLocation == NoText

\* the row has a td.place cell
IsLocationRow(row) == Len(FindTd(row, "place")) > 0

\* the row has td.date, td.boxer_1, td.vs and td.boxer_2
HasFightCells(row) ==
    /\ Len(FindTd(row, "date")) > 0
    /\ Len(FindTd(row, "boxer_1")) > 0
    /\ Len(FindTd(row, "vs")) > 0
    /\ Len(FindTd(row, "boxer_2")) > 0

\* currentLocation after a location row
RowLocation(row) == cleanLocationText(TrimSpace(SelText(FindTd(row, "place"))))

\* the fight event built from a row with the four cells
RowFightEvent(row, rowPath, location, year, month, date) ==
    FightEvent(location,
               formatDate(TrimSpace(SelText(FindTd(row, "date"))), year, month, date),
               extractFighterName(FindTd(row, "boxer_1")),
               extractFighterName(FindTd(row, "boxer_2")),
               extractResult(FindTd(row, "vs")),
               rowPath)

\* "Validate fight event has minimum required data"
HasAnyData(fightEvent) == TRUE
HasRequiredData(fightEvent) ==
    fightEvent.Fighter1 # NoText /\ fightEvent.Fighter2 # NoText

\* time.Now().Year(), time.Now().Month(), the div.month lookup whose text is
\* only logged, and doc.Find("table")
ExtractBegin ==
    /\ mpc = "extract"
    /\ mpc' = "tables"
    /\ currentYear' = today[1]
    /\ currentMonth' = today[2]
    /\ tableSel' = FindTablePaths(doc.tables, <<>>)
    /\ rowSel' = <<>>
    /\ tableIndex' = 0
    /\ rowIndex' = 0
    /\ currentLocation' = InitialLocation
    /\ fightEvents' = <<>>
    /\ emittedAt' = <<>>
    /\ UNCHANGED <<resp, response, today, now, request, doc, returned, procVars>>

\* TableCallback with currentLocation declared outside the table loop
TableCallbackKeepsLocation ==
    /\ mpc = "tables"
    /\ rowIndex = Len(rowSel)
    /\ tableIndex < Len(tableSel)
    /\ tableIndex' = tableIndex + 1
    /\ LET tablePath == tableSel[tableIndex + 1]
       IN  rowSel' = FindTrPaths(TableAt(doc.tables, tablePath), tablePath)
    /\ rowIndex' = 0
    /\ UNCHANGED <<resp, response, procVars, today, now, request, mpc, doc, returned, tableSel, currentYear,
                   currentMonth, currentLocation, fightEvents, emittedAt>>

\* the callback of doc.Find("table").Each, up to its row loop
TableCallback ==
    /\ mpc = "tables"
    /\ rowIndex = Len(rowSel)
    /\ tableIndex < Len(tableSel)
    /\ tableIndex' = tableIndex + 1
    /\ LET tablePath == tableSel[tableIndex + 1]
       IN  rowSel' = FindTrPaths(TableAt(doc.tables, tablePath), tablePath)
    /\ rowIndex' = 0
    /\ currentLocation' = InitialLocation
    /\ UNCHANGED <<resp, response, procVars, today, now, request, mpc, doc, returned, tableSel, currentYear,
                   currentMonth, fightEvents, emittedAt>>

\* the callback of table.Find("tr").Each, for the next row of the table
RowCallback ==
    /\ mpc = "tables"
    /\ rowIndex < Len(rowSel)
    /\ rowIndex' = rowIndex + 1
    /\ LET rowPath == rowSel[rowIndex + 1]
           row == RowAt(doc.tables, rowPath)
           fightEvent == RowFightEvent(row, rowPath, currentLocation,
                                       currentYear, currentMonth, today)
       IN  IF IsLocationRow(row)
           THEN /\ currentLocation' = RowLocation(row)
                /\ UNCHANGED <<fightEvents, emittedAt>>
           ELSE IF HasFightCells(row) /\ HasRequiredData(fightEvent)
           THEN /\ fightEvents' = Append(fightEvents, fightEvent)
                /\ emittedAt' = Append(emittedAt, <<tableIndex, rowIndex + 1>>)
                /\ UNCHANGED currentLocation
           ELSE UNCHANGED <<currentLocation, fightEvents, emittedAt>>
    /\ UNCHANGED <<resp, response, procVars, today, now, request, mpc, doc, returned, tableSel, rowSel,
                   tableIndex, currentYear, currentMonth>>

\* return fightEvents
ExtractReturn ==
    /\ mpc = "tables"
    /\ rowIndex = Len(rowSel)
    /\ tableIndex = Len(tableSel)
    /\ mpc' = "extracted"
    /\ UNCHANGED <<resp, response, today, now, request, doc, returned, extractVars, procVars>>

(***************************************************************************)
(* ID Generator and Concurrent Fight Processor                             *)
(***************************************************************************)
\* nil, of an interface, a map or an error
Nil == [nil |-> TRUE]

\* fmt.Errorf
Errorf(message) == [error |-> message]

FightResult(fight, error) == [Fight |-> fight, Error |-> error]

\* fmt.Sprintf("fight_%d_%d", timestamp, p.idCounter)
UniqueID(timestamp, counter) == <<"fight", timestamp, counter>>

\* convertEventToFight with the two fighters exchanged
FightFightersExchanged(id, event, parsedAt) ==
    [id |-> id, date |-> event.Date, fighter1 |-> event.Fighter2,
     fighter2 |-> event.Fighter1, result |-> event.Result,
     location |-> event.Location, parsed_at |-> parsedAt]

\* the map convertEventToFight builds
Fight(id, event, parsedAt) ==
    [id |-> id, date |-> event.Date, fighter1 |-> event.Fighter1,
     fighter2 |-> event.Fighter2, result |-> event.Result,
     location |-> event.Location, parsed_at |-> parsedAt]

\* "Validate that we have essential fight data"
MissingEssentialData(event) == event.Fighter1 = NoText \/ event.Fighter2 = NoText

\* the slice value <ptr, len>, read through the shared backing array
Slice(len) == [k \in 1..len |-> resultsArr[k]]

Workers == DOMAIN wpc

\* idCounter: 0 in NewParser
CounterKept(old) == old
NewCounter(old) == 0

\* p.idMutex.Lock() returns only while no goroutine holds the mutex
MutexIgnored(w) == TRUE
MutexAvailable(w) == idMutex = 0

\* what time.Now() may read: the reading before, or a later one (how much
\* later makes no difference to what is done with it)
ClockReadings == {t \in {now, now + 1} : t <= MaxClock}

\* timestamp := time.Now().UnixNano(), from the reading of this call
TimestampOfFirstCall(reading) ==
    IF \E x \in issued : x.request = request
    THEN (CHOOSE x \in issued : x.request = request).id[2]
    ELSE reading
Timestamp(reading) == reading

\* time.Now().Format(time.RFC3339): whole seconds of a reading in nanoseconds
RFC3339(reading) == reading \div 1000000000

\* what the deferred recover function sends after a panic
RecoveredSilently == <<>>
RecoveredResults == <<FightResult(Nil, Errorf("panic during parsing"))>>

\* the collector's loop index after an outcome that carries an error (or
\* nothing): it is logged, and `continue` goes on with i++
IndexAfterErrorAborts(i, n) == n
IndexAfterError(i, n) == i + 1

\* the collector's loop index after the timeout case: `break` leaves the
\* select statement, and the for statement goes on with i++
IndexAfterTimeout(i, n) == i + 1

\* processFightsConcurrently, up to p.WaitGroup.Wait(): the counter is raised,
\* a goroutine is started per candidate, and the collector goroutine
ProcessFightsConcurrently ==
    /\ mpc = "extracted"
    /\ Len(fightEvents) > 0
    /\ mpc' = "wait"
    /\ WaitGroup' = WaitGroup + Len(fightEvents)
    /\ wpc' = [w \in 1..Len(fightEvents) |-> "start"]
    /\ wid' = [w \in 1..Len(fightEvents) |-> Nil]
    /\ wresult' = [w \in 1..Len(fightEvents) |-> Nil]
    /\ cpc' = "select"
    /\ ci' = 0
    /\ cfight' = Nil
    /\ resultsLen' = 0
    /\ resultsArr' = [k \in 1..Len(fightEvents) |-> Nil]
    /\ resultCollector' = <<>>
    /\ sent' = [w \in 1..Len(fightEvents) |-> 0]
    /\ timeouts' = 0
    /\ UNCHANGED <<resp, response, today, now, request, doc, returned, extractVars, idCounter,
                   idMutex, ResultChannel, issued>>

\* ParseFights when extractFightElements found nothing
ReturnNoEvents ==
    /\ mpc = "extracted"
    /\ Len(fightEvents) = 0
    /\ mpc' = "returned"
    /\ returned' = [fights |-> <<>>, err |-> Nil]
    /\ UNCHANGED <<resp, response, today, now, request, doc, extractVars, procVars>>

\* generateUniqueID: p.idMutex.Lock() and p.idCounter++
GenerateIncrement(w) ==
    /\ wpc[w] = "start"
    /\ MutexAvailable(w)
    /\ idMutex' = w
    /\ idCounter' = idCounter + 1
    /\ wpc' = [wpc EXCEPT ![w] = "locked"]
    /\ UNCHANGED <<resp, response, today, now, request, mpc, doc, returned, extractVars,
                   ResultChannel, WaitGroup, wid, wresult, collectorVars, historyVars>>

\* the rest of generateUniqueID: time.Now() reads t, Sprintf reads
\* p.idCounter, and the deferred Unlock
GenerateFormat(w, t) ==
    /\ now' = t
    /\ wid' = [wid EXCEPT ![w] = UniqueID(Timestamp(t), idCounter)]
    /\ issued' = issued \cup {[request |-> request, worker |-> w, at |-> t,
                               id |-> UniqueID(Timestamp(t), idCounter)]}
    /\ idMutex' = 0

\* convertEventToFight from the timestamp on: the ID, the rest of the map,
\* the validation, and the FightResult parseSingleFight makes of the outcome
Convert(w) ==
    /\ wpc[w] = "locked"
    /\ \E t \in ClockReadings :
          /\ GenerateFormat(w, t)
          /\ wresult' = [wresult EXCEPT ![w] =
                           IF MissingEssentialData(fightEvents[w])
                           THEN FightResult(Nil, Errorf("failed to convert event to fight"))
                           ELSE FightResult(Fight(wid'[w], fightEvents[w], RFC3339(t)), Nil)]
    /\ wpc' = [wpc EXCEPT ![w] = "send"]
    /\ UNCHANGED <<resp, response, today, request, mpc, doc, returned, extractVars, idCounter,
                   ResultChannel, WaitGroup, collectorVars, sent, timeouts>>

\* a panic in the parsing logic after the ID, unwinding to the deferred
\* recover function
ConvertPanics(w) ==
    /\ wpc[w] = "locked"
    /\ \E t \in ClockReadings : GenerateFormat(w, t)
    /\ wpc' = [wpc EXCEPT ![w] = "recover"]
    /\ UNCHANGED <<resp, response, today, request, mpc, doc, returned, extractVars, idCounter,
                   ResultChannel, WaitGroup, wresult, collectorVars, sent, timeouts>>

\* p.ResultChannel <- FightResult{...}, on the error and on the success path
Send(w) ==
    /\ wpc[w] = "send"
    /\ Len(ResultChannel) < ResultChannelCap
    /\ ResultChannel' = Append(ResultChannel, wresult[w])
    /\ sent' = [sent EXCEPT ![w] = @ + 1]
    /\ wpc' = [wpc EXCEPT ![w] = "deferred"]
    /\ UNCHANGED <<resp, response, today, now, request, mpc, doc, returned, extractVars, idCounter,
                   idMutex, WaitGroup, wid, wresult, collectorVars, issued, timeouts>>

\* the deferred recover function after a panic
Recover(w) ==
    /\ wpc[w] = "recover"
    /\ Len(ResultChannel) + Len(RecoveredResults) <= ResultChannelCap
    /\ ResultChannel' = ResultChannel \o RecoveredResults
    /\ sent' = [sent EXCEPT ![w] = @ + Len(RecoveredResults)]
    /\ wpc' = [wpc EXCEPT ![w] = "deferred"]
    /\ UNCHANGED <<resp, response, today, now, request, mpc, doc, returned, extractVars, idCounter,
                   idMutex, WaitGroup, wid, wresult, collectorVars, issued, timeouts>>

\* defer p.WaitGroup.Done()
Done(w) ==
    /\ wpc[w] = "deferred"
    /\ WaitGroup' = WaitGroup - 1
    /\ wpc' = [wpc EXCEPT ![w] = "done"]
    /\ UNCHANGED <<resp, response, today, now, request, mpc, doc, returned, extractVars, idCounter,
                   idMutex, ResultChannel, wid, wresult, collectorVars, historyVars>>

\* the collector's select: case result := <-p.ResultChannel. An error is
\* logged and the loop continues; a fight is appended, and the append
\* stores the slice's new length before the element
CollectorReceive ==
    /\ cpc = "select"
    /\ ci < Len(fightEvents)
    /\ ResultChannel # <<>>
    /\ ResultChannel' = Tail(ResultChannel)
    /\ LET result == Head(ResultChannel)
       IN  IF result.Error = Nil /\ result.Fight # Nil
           THEN /\ resultsLen' = resultsLen + 1
                /\ cfight' = result.Fight
                /\ cpc' = "append"
                /\ UNCHANGED ci
           ELSE /\ ci' = IndexAfterError(ci, Len(fightEvents))
                /\ UNCHANGED <<resultsLen, cfight, cpc>>
    /\ UNCHANGED <<resp, response, today, now, request, mpc, doc, returned, extractVars, idCounter,
                   idMutex, WaitGroup, workerVars, resultsArr, resultCollector,
                   historyVars>>

\* the rest of results = append(results, result.Fight): the element
CollectorStore ==
    /\ cpc = "append"
    /\ resultsArr' = [resultsArr EXCEPT ![resultsLen] = cfight]
    /\ cfight' = Nil
    /\ ci' = ci + 1
    /\ cpc' = "select"
    /\ UNCHANGED <<resp, response, today, now, request, mpc, doc, returned, extractVars, parserVars,
                   workerVars, resultsLen, resultCollector, historyVars>>

\* the collector's select: case <-time.After(10 * time.Second)
CollectorTimeout ==
    /\ cpc = "select"
    /\ ci < Len(fightEvents)
    /\ ResultChannel = <<>>
    /\ timeouts' = timeouts + 1
    /\ ci' = IndexAfterTimeout(ci, Len(fightEvents))
    /\ UNCHANGED <<resp, response, today, now, request, mpc, doc, returned, extractVars, parserVars,
                   workerVars, cpc, cfight, resultsLen, resultsArr, resultCollector,
                   issued, sent>>

\* the loop has ended: resultCollector <- results, and the deferred close
CollectorHandOver ==
    /\ cpc = "select"
    /\ ci >= Len(fightEvents)
    /\ Len(resultCollector) < ResultCollectorCap
    /\ resultCollector' = Append(resultCollector, resultsLen)
    /\ cpc' = "closed"
    /\ UNCHANGED <<resp, response, today, now, request, mpc, doc, returned, extractVars, parserVars,
                   workerVars, ci, cfight, resultsLen, resultsArr, historyVars>>

\* p.WaitGroup.Wait() returns
WaitGroupWait ==
    /\ mpc = "wait"
    /\ WaitGroup = 0
    /\ mpc' = "collect"
    /\ UNCHANGED <<resp, response, today, now, request, doc, returned, extractVars, procVars>>

\* case finalResults := <-resultCollector
ReceiveFinalResults ==
    /\ mpc = "collect"
    /\ resultCollector # <<>>
    /\ returned' = [fights |-> Slice(Head(resultCollector)), err |-> Nil]
    /\ resultCollector' = Tail(resultCollector)
    /\ mpc' = "returned"
    /\ UNCHANGED <<resp, response, today, now, request, doc, extractVars, parserVars, workerVars,
                   cpc, ci, cfight, resultsLen, resultsArr, historyVars>>

\* case <-time.After(5 * time.Second): return results, the slice the collector
\* may still be appending to
CollectionTimeout ==
    /\ mpc = "collect"
    /\ resultCollector = <<>>
    /\ returned' = [fights |-> Slice(resultsLen), err |-> Nil]
    /\ mpc' = "returned"
    /\ UNCHANGED <<resp, response, today, now, request, doc, extractVars, procVars>>

(***************************************************************************)
(* ParseFights and handleGetFights                                         *)
(***************************************************************************)
\* a goquery document: the text of its div.month, and its tables
NoMonth == "nomonth"
Document(month, tables) == [month |-> month, tables |-> tables]

\* the value of doc before fetchHTMLDocument has returned one
NoDocument == Document(NoMonth, <<>>)
NoReturn == <<>>
NoResponse == <<>>

\* a Parser fresh from NewParser, no goroutine started for the request yet
NewRequestState ==
    /\ idCounter = 0
    /\ idMutex = 0
    /\ ResultChannel = <<>>
    /\ WaitGroup = 0
    /\ wpc = <<>>
    /\ wid = <<>>
    /\ wresult = <<>>
    /\ cpc = "idle"
    /\ ci = 0
    /\ cfight = Nil
    /\ resultsLen = 0
    /\ resultsArr = <<>>
    /\ resultCollector = <<>>
    /\ issued = {}
    /\ sent = <<>>
    /\ timeouts = 0

\* the status codes a response may carry
StatusCodes == {200, 204, 304, 404, 500}

\* what reading the body of a response may give
Bodies == {"html", "unreadable"}

\* p.HTTPClient.Do returned an error and no response
TransportFailure == [transport |-> "failed"]

\* resp.StatusCode != http.StatusOK, negated
StatusSuccess(status) == status \div 100 = 2
StatusOK(status) == status = 200

\* the error of the status check, as the pieces of its text
StatusErrorGeneric(status) == <<"unexpected status code: ", ToString(status)>>
StatusError(status) ==
    IF status = 304
    THEN <<"resource ", "not modified", " (304), no new data available">>
    ELSE <<"unexpected status code: ", ToString(status)>>

\* ParseFights when fetchHTMLDocument fails
FetchFailed(error) ==
    /\ returned' = [fights |-> Nil,
                    err |-> Errorf(<<"failed to fetch HTML document: ">> \o error)]
    /\ mpc' = "returned"
    /\ UNCHANGED doc

\* the next request arrives: handleGetFights builds its Parser with
\* NewParser. The goroutines of the request before belong to the Parser
\* of that request and are followed no further, and the locals of the
\* ParseFights call before are gone.
HandleGetFights ==
    /\ mpc \in {"idle", "responded"}
    /\ request < MaxRequests
    /\ request' = request + 1
    /\ mpc' = "fetch"
    /\ idCounter' = NewCounter(idCounter)
    /\ idMutex' = 0
    /\ ResultChannel' = <<>>
    /\ WaitGroup' = 0
    /\ wpc' = <<>>
    /\ wid' = <<>>
    /\ wresult' = <<>>
    /\ cpc' = "idle"
    /\ ci' = 0
    /\ cfight' = Nil
    /\ resultsLen' = 0
    /\ resultsArr' = <<>>
    /\ resultCollector' = <<>>
    /\ sent' = <<>>
    /\ timeouts' = 0
    /\ returned' = NoReturn
    /\ response' = NoResponse
    /\ resp' = Nil
    /\ doc' = NoDocument
    /\ tableSel' = <<>>
    /\ rowSel' = <<>>
    /\ tableIndex' = 0
    /\ rowIndex' = 0
    /\ currentYear' = 0
    /\ currentMonth' = 0
    /\ currentLocation' = NoText
    /\ fightEvents' = <<>>
    /\ emittedAt' = <<>>
    /\ UNCHANGED <<today, now, issued>>

\* fetchHTMLDocument: the request fails, or the status is not 200, or the
\* body cannot be read, or the document is parsed
FetchHTMLDocument(documents) ==
    /\ mpc = "fetch"
    /\ \/ /\ resp' = TransportFailure
          /\ FetchFailed(<<"error executing HTTP request">>)
       \/ \E status \in StatusCodes, body \in Bodies :
            /\ resp' = [StatusCode |-> status, Body |-> body]
            /\ IF ~StatusOK(status)
               THEN FetchFailed(StatusError(status))
               ELSE IF body = "unreadable"
               THEN FetchFailed(<<"error parsing HTML document">>)
               ELSE /\ doc' \in documents
                    /\ mpc' = "extract"
                    /\ UNCHANGED returned
    /\ UNCHANGED <<response, today, now, request, extractVars, procVars>>

\* the status and the JSON body handleGetFights answers with
ResponseHidingError(ret) ==
    IF ret.err # Nil \/ Len(ret.fights) = 0
    THEN [status |-> 200, message |-> "No fight data available",
          data |-> <<>>, count |-> 0]
    ELSE [status |-> 200,
          message |-> "Fight data retrieved successfully from vringe.com",
          data |-> ret.fights, count |-> Len(ret.fights),
          source |-> "vringe.com/results/"]
ResponseFor(ret) ==
    IF ret.err # Nil
    THEN [status |-> 500, error |-> "Failed to parse fight data",
          message |-> "Unable to retrieve fight information at this time",
          details |-> ret.err.error]
    ELSE IF Len(ret.fights) = 0
    THEN [status |-> 200, message |-> "No fight data available",
          data |-> <<>>, count |-> 0]
    ELSE [status |-> 200,
          message |-> "Fight data retrieved successfully from vringe.com",
          data |-> ret.fights, count |-> Len(ret.fights),
          source |-> "vringe.com/results/"]

\* handleGetFights after ParseFights has returned
Respond ==
    /\ mpc = "returned"
    /\ mpc' = "responded"
    /\ response' = ResponseFor(returned)
    /\ UNCHANGED <<resp, today, now, request, doc, returned, extractVars, procVars>>

(***************************************************************************)
(* The documents and clock readings the model is run on                    *)
(***************************************************************************)
\* a text with a run of white space, and one that is empty once cleaned
PlaceTexts == {<<"a", " ", "\n", "b">>, <<CommentOpen, "x", CommentClose, " ">>}

LocationRow(text) == Row(<<Cell("place", NoLink, text)>>, <<>>)

FightRow(day, boxer1, vs, boxer2) ==
    Row(<<Cell("date", NoLink, day), boxer1, Cell("vs", NoLink, vs), boxer2>>, <<>>)

\* linked name, result, unlinked name with a record in parentheses
GoodFightRow ==
    FightRow(<<"1", "5">>,
             Cell("boxer_1", <<"J", "d">>, <<"\n", "(", "7", ")">>),
             <<" ", "K", "O", " ", " ", "3">>,
             Cell("boxer_2", NoLink, <<"J", "s", " ", "(", "7", ")">>))

\* no date, and a first boxer cell that holds only a record
NamelessFightRow ==
    FightRow(<<>>,
             Cell("boxer_1", NoLink, <<" ", "(", "7", ")">>),
             <<>>,
             Cell("boxer_2", <<"M", "j">>, <<>>))

TitleRow == Row(<<Cell("title", NoLink, <<"t">>)>>, <<>>)

FlatRows == {LocationRow(t) : t \in PlaceTexts}
              \cup {GoodFightRow, NamelessFightRow, TitleRow}

\* the tables of exactly k nodes: the table itself and the rows and tables
\* under it
RECURSIVE TablesOfSize(_)
RECURSIVE RowSeqs(_)
RECURSIVE RowsOfSize(_)
TablesOfSize(k) == IF k = 0 THEN {} ELSE RowSeqs(k - 1)
RowSeqs(k) ==
    IF k = 0 THEN {<<>>}
    ELSE UNION {{<<r>> \o rest : r \in RowsOfSize(c), rest \in RowSeqs(k - c)}
                  : c \in 1..k}
RowsOfSize(c) ==
    IF c = 1 THEN FlatRows
    ELSE {Row(<<>>, <<t>>) : t \in TablesOfSize(c - 1)}

\* the sequences of tables of exactly k nodes in all
RECURSIVE TableSeqs(_)
TableSeqs(k) ==
    IF k = 0 THEN {<<>>}
    ELSE UNION {{<<t>> \o rest : t \in TablesOfSize(c), rest \in TableSeqs(k - c)}
                  : c \in 1..k}

\* a location row, two fight rows, a new location row, one more fight row
SequentialContextDoc ==
    Document(NoMonth,
             <<<<LocationRow(<<"a", " ", "\n", "b">>), GoodFightRow, GoodFightRow,
                 LocationRow(<<CommentOpen, "x", CommentClose, "c">>), GoodFightRow>>>>)

Docs == {Document(NoMonth, ts) : ts \in UNION {TableSeqs(k) : k \in 0..MaxNodes}}
          \cup {SequentialContextDoc}

Todays == {<<2025, 7, 5>>}

(***************************************************************************)
(* extractFightElements on every document                                  *)
(***************************************************************************)
InitExtract ==
    /\ today \in Todays
    /\ now = 0
    /\ request = 1
    /\ mpc = "extract"
    /\ doc \in Docs
    /\ returned = NoReturn
    /\ response = NoResponse
    /\ resp = [StatusCode |-> 200, Body |-> "html"]
    /\ NewRequestState
    /\ tableSel = <<>>
    /\ rowSel = <<>>
    /\ tableIndex = 0
    /\ rowIndex = 0
    /\ currentYear = 0
    /\ currentMonth = 0
    /\ currentLocation = NoText
    /\ fightEvents = <<>>
    /\ emittedAt = <<>>

\* the documents a request may be answered with: a table with a location
\* and a table without, both with a fight; a fight without a name beside a
\* good one; no table at all
TwoTableDoc ==
    Document(NoMonth, <<<<LocationRow(<<"a", " ", "\n", "b">>), GoodFightRow>>,
                        <<GoodFightRow>>>>)
NamelessDoc == Document(NoMonth, <<<<NamelessFightRow, GoodFightRow>>>>)
EmptyDoc == Document(NoMonth, <<>>)
RequestDocs == {TwoTableDoc, NamelessDoc, EmptyDoc}

NextExtract ==
    \/ ExtractBegin
    \/ TableCallback
    \/ RowCallback
    \/ ExtractReturn

SpecExtract == InitExtract /\ [][NextExtract]_vars

(***************************************************************************)
(* The service: requests served one after another                         *)
(***************************************************************************)
Init ==
    /\ today \in Todays
    /\ now = 0
    /\ request = 0
    /\ mpc = "idle"
    /\ doc = NoDocument
    /\ returned = NoReturn
    /\ response = NoResponse
    /\ resp = Nil
    /\ NewRequestState
    /\ tableSel = <<>>
    /\ rowSel = <<>>
    /\ tableIndex = 0
    /\ rowIndex = 0
    /\ currentYear = 0
    /\ currentMonth = 0
    /\ currentLocation = NoText
    /\ fightEvents = <<>>
    /\ emittedAt = <<>>

WorkerStep(w) ==
    \/ GenerateIncrement(w)
    \/ Convert(w)
    \/ ConvertPanics(w)
    \/ Send(w)
    \/ Recover(w)
    \/ Done(w)

Next ==
    \/ HandleGetFights
    \/ FetchHTMLDocument(RequestDocs)
    \/ ExtractBegin
    \/ TableCallback
    \/ RowCallback
    \/ ExtractReturn
    \/ ReturnNoEvents
    \/ ProcessFightsConcurrently
    \/ \E w \in Workers : WorkerStep(w)
    \/ CollectorReceive
    \/ CollectorStore
    \/ CollectorTimeout
    \/ CollectorHandOver
    \/ WaitGroupWait
    \/ ReceiveFinalResults
    \/ CollectionTimeout
    \/ Respond

Spec == Init /\ [][Next]_vars

(***************************************************************************)
(* processFightsConcurrently on every short sequence of fight events       *)
(***************************************************************************)
\* fight events as parseSingleFight may be given them, a worker's
\* conversion error included; the clock has reached its latest reading, so
\* that the IDs of a run can differ by their counters alone
SampleEvents ==
    {FightEvent(l, <<2025, 7, 15>>, f1, <<"K">>, TBD, <<1, 1>>) :
        l \in {<<"a">>}, f1 \in {NoText, <<"J">>}}

EventSeqs == UNION {[1..n -> SampleEvents] : n \in 0..MaxFights}

InitProc ==
    /\ today \in Todays
    /\ now = MaxClock
    /\ request = 1
    /\ mpc = "extracted"
    /\ doc = NoDocument
    /\ returned = NoReturn
    /\ response = NoResponse
    /\ resp = [StatusCode |-> 200, Body |-> "html"]
    /\ NewRequestState
    /\ tableSel = <<>>
    /\ rowSel = <<>>
    /\ tableIndex = 0
    /\ rowIndex = 0
    /\ currentYear = today[1]
    /\ currentMonth = today[2]
    /\ currentLocation = NoText
    /\ fightEvents \in EventSeqs
    /\ emittedAt = [i \in 1..Len(fightEvents) |-> <<1, i>>]

NextProc ==
    \/ ReturnNoEvents
    \/ ProcessFightsConcurrently
    \/ \E w \in Workers : WorkerStep(w)
    \/ CollectorReceive
    \/ CollectorStore
    \/ CollectorTimeout
    \/ CollectorHandOver
    \/ WaitGroupWait
    \/ ReceiveFinalResults
    \/ CollectionTimeout

SpecProc == InitProc /\ [][NextProc]_vars

(***************************************************************************)
(* processFightsConcurrently on more candidates than ResultChannel holds,  *)
(* on one schedule: the workers are slow, every receive of the collector   *)
(* times out before a worker has sent, and then the workers run one after  *)
(* another                                                                 *)
(***************************************************************************)
BurstSize == ResultChannelCap + 1

BurstEvent == FightEvent(<<"a">>, <<2025, 7, 15>>, <<"J">>, <<"K">>, TBD, <<1, 1>>)

InitBurst ==
    /\ today \in Todays
    /\ now = MaxClock
    /\ request = 1
    /\ mpc = "extracted"
    /\ doc = NoDocument
    /\ returned = NoReturn
    /\ response = NoResponse
    /\ resp = [StatusCode |-> 200, Body |-> "html"]
    /\ NewRequestState
    /\ tableSel = <<>>
    /\ rowSel = <<>>
    /\ tableIndex = 0
    /\ rowIndex = 0
    /\ currentYear = today[1]
    /\ currentMonth = today[2]
    /\ currentLocation = NoText
    /\ fightEvents = [i \in 1..BurstSize |-> BurstEvent]
    /\ emittedAt = [i \in 1..BurstSize |-> <<1, i>>]

\* the worker's turn has come: the collector has ended and the workers
\* started before it are done
BurstTurn(w) ==
    /\ cpc = "closed"
    /\ \A v \in 1..(w - 1) : wpc[v] = "done"

NextBurst ==
    \/ ProcessFightsConcurrently
    \/ CollectorTimeout
    \/ CollectorHandOver
    \/ \E w \in Workers : BurstTurn(w) /\ GenerateIncrement(w)
    \/ \E w \in Workers : BurstTurn(w) /\ Convert(w)
    \/ \E w \in Workers : BurstTurn(w) /\ Send(w)
    \/ \E w \in Workers : BurstTurn(w) /\ Done(w)

SpecBurst == InitBurst /\ [][NextBurst]_vars

(***************************************************************************)
(* Claims on the Row-Context Extractor                                     *)
(***************************************************************************)
\* the rows table.Find("tr") gave the pass over the table-th table
PassRows(table) ==
    LET tablePath == FindTablePaths(doc.tables, <<>>)[table]
    IN  FindTrPaths(TableAt(doc.tables, tablePath), tablePath)

\* the positions before `row` in that pass that hold a location row
LocationRowsBefore(table, row) ==
    LET rows == PassRows(table)
    IN  {k \in 1..(row - 1) : IsLocationRow(RowAt(doc.tables, rows[k]))}

Largest(S) == CHOOSE x \in S : \A y \in S : y <= x

\* every row of the document that has a td.place cell
AllRowPaths ==
    UNION {{PassRows(t)[k] : k \in 1..Len(PassRows(t))} :
             t \in 1..Len(FindTablePaths(doc.tables, <<>>))}
AllLocationRows ==
    {RowAt(doc.tables, p) : p \in {q \in AllRowPaths : IsLocationRow(RowAt(doc.tables, q))}}

\* C1: every candidate carries the cleaned text of the nearest location row
\* that precedes its fight row among the rows of the table being walked; a
\* candidate with no such row carries the text of no location row at all, so
\* no location passes from one table to a later one.
C1_NearestPrecedingLocation ==
    \A i \in 1..Len(fightEvents) :
        LET table == emittedAt[i][1]
            row == emittedAt[i][2]
            rows == PassRows(table)
            before == LocationRowsBefore(table, row)
        IN  /\ fightEvents[i].Row = rows[row]
            /\ IF before # {}
               THEN fightEvents[i].Location =
                      RowLocation(RowAt(doc.tables, rows[Largest(before)]))
               ELSE \A r \in AllLocationRows : fightEvents[i].Location # RowLocation(r)

\* C1 witness: the walk has ended with three candidates of one table, the
\* first two carrying one location and the third another.
C1_Witness ==
    /\ mpc = "extracted"
    /\ Len(fightEvents) = 3
    /\ emittedAt[1][1] = emittedAt[3][1]
    /\ fightEvents[1].Location = fightEvents[2].Location
    /\ fightEvents[1].Location # NoText
    /\ fightEvents[3].Location # NoText
    /\ fightEvents[3].Location # fightEvents[1].Location

\* C2 (as claimed): no candidate has an empty location, and a candidate with
\* no location row before it in its table carries "Unknown Location".
C2_SentinelWhenNoLocationRow ==
    \A i \in 1..Len(fightEvents) :
        /\ fightEvents[i].Location # NoText
        /\ LocationRowsBefore(emittedAt[i][1], emittedAt[i][2]) = {}
             => fightEvents[i].Location = UnknownLocation

(***************************************************************************)
(* Claims on the record validation                                         *)
(***************************************************************************)
\* the name extractFighterName gives for a cell of the row of a candidate
NameAt(event, class) == extractFighterName(FindTd(RowAt(doc.tables, event.Row), class))

\* the records ParseFights returned, nil elements left aside
ReturnedRecords ==
    IF returned = NoReturn THEN {}
    ELSE IF returned.err # Nil THEN {}
    ELSE {returned.fights[k] : k \in 1..Len(returned.fights)} \ {Nil}

\* C3: no row whose boxer_1 or boxer_2 cell yields an empty name is among
\* the candidates of extractFightElements, and every record ParseFights
\* returns has a non-empty fighter1 and a non-empty fighter2, in every
\* interleaving of the workers.
C3_FightersNonEmpty ==
    /\ \A i \in 1..Len(fightEvents) :
           /\ NameAt(fightEvents[i], "boxer_1") # NoText
           /\ NameAt(fightEvents[i], "boxer_2") # NoText
           /\ fightEvents[i].Fighter1 # NoText
           /\ fightEvents[i].Fighter2 # NoText
    /\ \A fight \in ReturnedRecords :
           fight.fighter1 # NoText /\ fight.fighter2 # NoText

\* C3 witness: the document with a nameless fight row beside a good one has
\* been parsed, and ParseFights has returned the one record of the good row.
C3_Witness ==
    /\ mpc = "returned"
    /\ doc = NamelessDoc
    /\ Len(fightEvents) = 1
    /\ Cardinality(ReturnedRecords) = 1

(***************************************************************************)
(* Claims on the Concurrent Fight Processor                                *)
(***************************************************************************)
\* C4: a worker never sends two FightResults, and a worker that has called
\* WaitGroup.Done has sent exactly one, whether its conversion succeeded,
\* failed or panicked and was recovered.
C4_ExactlyOneResult ==
    \A w \in Workers :
        /\ sent[w] <= 1
        /\ wpc[w] \in {"deferred", "done"} => sent[w] = 1

\* C4 witness: two workers are done, one after a recovered panic (it never
\* made a FightResult of its own) and one after a conversion error.
C4_Witness ==
    \E w1, w2 \in Workers :
        /\ wpc[w1] = "done"
        /\ wpc[w2] = "done"
        /\ wresult[w1] = Nil
        /\ wresult[w2] # Nil
        /\ wresult[w2].Error # Nil
        /\ sent[w1] = 1
        /\ sent[w2] = 1

\* the records of the workers whose conversion succeeded
SuccessfulRecords ==
    {wresult[w].Fight : w \in {v \in Workers : wresult[v] # Nil /\ wresult[v].Error = Nil}}

\* C5 (as claimed): what processFightsConcurrently returns is no longer
\* than the candidates it was given, and every element of it is the record
\* of a worker whose conversion succeeded.
C5_OnlySuccessfulRecords ==
    (mpc = "returned" /\ returned.err = Nil) =>
        /\ Len(returned.fights) <= Len(fightEvents)
        /\ \A k \in 1..Len(returned.fights) : returned.fights[k] \in SuccessfulRecords

(***************************************************************************)
(* Claims on the ID Generator                                              *)
(***************************************************************************)
IssuedIn(r) == {x \in issued : x.request = r}
Counter(id) == id[3]
TimestampOf(id) == id[2]

\* C6: the IDs generateUniqueID has returned on the Parser of the request
\* are pairwise distinct, and their counter components are exactly 1..N
\* for the N calls that have returned, in every interleaving.
C6_DistinctIDs ==
    LET calls == IssuedIn(request)
    IN  /\ \A x, y \in calls : x.worker # y.worker => x.id # y.id
        /\ {Counter(x.id) : x \in calls} = 1..Cardinality({x.worker : x \in calls})

\* C6 witness: two calls have returned, and the worker started second was
\* served first.
C6_Witness ==
    /\ Cardinality(IssuedIn(request)) = 2
    /\ \E x \in IssuedIn(request) : x.worker = 2 /\ Counter(x.id) = 1

C8_CounterNeverReset ==
    \A x, y \in issued : x.request < y.request => Counter(x.id) < Counter(y.id)

\* C8 (amended): the counter belongs to the Parser, and handleGetFights
\* builds a Parser per request: the counters of the IDs of every request
\* start at 1 again and have no gap.
C8_CounterPerRequest ==
    \A r \in 1..request :
        \A x \in IssuedIn(r) :
            \A c \in 1..Counter(x.id) : \E y \in IssuedIn(r) : Counter(y.id) = c

\* C8 witness: an ID of the first request and an ID of the second request
\* both have counter 1.
C8_Witness ==
    \E x, y \in issued :
        /\ x.request = 1
        /\ y.request = 2
        /\ Counter(x.id) = 1
        /\ Counter(y.id) = 1

(***************************************************************************)
(* Claims on the timeouts                                                  *)
(***************************************************************************)
\* C9 (as claimed): once a receive of the collector has timed out, the
\* collector is never again at its select with an iteration left, that is,
\* it makes no further receive attempt on ResultChannel.
C9_AbandonsAfterTimeout ==
    timeouts > 0 => ~(cpc = "select" /\ ci < Len(fightEvents))

\* the steps of the goroutine that runs processFightsConcurrently
MainStep == WaitGroupWait \/ ReceiveFinalResults \/ CollectionTimeout

\* C10 (as claimed): while processFightsConcurrently waits for the batch it
\* always has a step of its own to take, whatever the workers do: a worker
\* that never finishes cannot keep it from returning.
C10_WaitBoundedByTimeout ==
    mpc \in {"wait", "collect"} => ENABLED MainStep

(***************************************************************************)
(* Claims on the bounded ResultChannel                                     *)
(***************************************************************************)
\* the receives the collector may still make
ReceivesLeft ==
    IF cpc = "select" THEN Len(fightEvents) - ci
    ELSE IF cpc = "append" THEN Len(fightEvents) - ci - 1
    ELSE 0

\* C11 (as claimed): a worker waiting at its send on ResultChannel is never
\* stuck there: the channel has room for its FightResult, or the collector
\* has a receive left that will make room.
C11_SendNeverBlocksForever ==
    \A w \in Workers :
        wpc[w] = "send" => (Len(ResultChannel) < ResultChannelCap \/ ReceivesLeft > 0)

(***************************************************************************)
(* Claims on failure isolation                                             *)
(***************************************************************************)
\* the worker's conversion panicked, or its candidate lacks a name
Failed(w) ==
    \/ wresult[w] = Nil
    \/ fightEvents[w].Fighter1 = NoText
    \/ fightEvents[w].Fighter2 = NoText

\* processFightsConcurrently has returned what the collector handed over,
\* and no receive of the collector timed out
ReturnedWithoutTimeout ==
    /\ mpc = "returned"
    /\ wpc # <<>>
    /\ cpc = "closed"
    /\ resultCollector = <<>>
    /\ timeouts = 0

\* element k of what was returned is the record of worker w's candidate
RecordOf(k, w) ==
    /\ returned.fights[k] # Nil
    /\ returned.fights[k].id = wid[w]
    /\ returned.fights[k].fighter1 = fightEvents[w].Fighter1
    /\ returned.fights[k].fighter2 = fightEvents[w].Fighter2

\* C12: the WaitGroup counter is the number of workers that have not called
\* Done, failed workers included; and when no timeout fired, what is
\* returned holds one record for every candidate that did not fail and
\* nothing for one that failed, without an error for the batch.
C12_FailuresIsolated ==
    /\ WaitGroup = Cardinality({w \in Workers : wpc[w] # "done"})
    /\ ReturnedWithoutTimeout =>
         LET ok == {w \in Workers : ~Failed(w)}
         IN  /\ returned.err = Nil
             /\ Len(returned.fights) = Cardinality(ok)
             /\ \A w \in ok : \E k \in 1..Len(returned.fights) : RecordOf(k, w)

\* C12 witness: of two workers one panicked and was recovered, and the record
\* of the other is the one record returned.
C12_Witness ==
    /\ ReturnedWithoutTimeout
    /\ Cardinality(Workers) = 2
    /\ \E w \in Workers : wresult[w] = Nil
    /\ \E w \in Workers : ~Failed(w)
    /\ Len(returned.fights) = 1

(***************************************************************************)
(* Claims on the fetch and on the fights endpoint                          *)
(***************************************************************************)
\* the text of an error holds the piece
Contains(text, piece) == \E i \in 1..Len(text) : text[i] = piece

\* the request was answered
HasStatus(r) == r # Nil /\ r # TransportFailure

\* ParseFights has come back, or the handler has answered
ParseFightsOver == mpc \in {"returned", "responded"}

\* nothing of extractFightElements or processFightsConcurrently has run in
\* the request
NothingExtracted ==
    /\ tableSel = <<>>
    /\ fightEvents = <<>>
    /\ wpc = <<>>
    /\ cpc = "idle"
    /\ ResultChannel = <<>>
    /\ IssuedIn(request) = {}

\* C13: after an answer with a status outside 2xx, ParseFights has returned
\* nil records and an error, nothing was extracted or dispatched, and the
\* error text holds "not modified" exactly when the status was 304; for any
\* other such status it is the generic status error.
C13_NotModifiedIsDistinct ==
    (HasStatus(resp) /\ resp.StatusCode \div 100 # 2) =>
        /\ ParseFightsOver
        /\ returned.fights = Nil
        /\ returned.err # Nil
        /\ Contains(returned.err.error, "not modified") <=> resp.StatusCode = 304
        /\ resp.StatusCode # 304 => Contains(returned.err.error, "unexpected status code: ")
        /\ NothingExtracted

\* C13 witness: the handler has answered a request whose fetch got a 304.
C13_Witness ==
    /\ mpc = "responded"
    /\ HasStatus(resp)
    /\ resp.StatusCode = 304
    /\ Contains(returned.err.error, "not modified")

\* the request failed, or the body of the answer could not be parsed
RequestOrParseFailure ==
    \/ resp = TransportFailure
    \/ HasStatus(resp) /\ resp.Body = "unreadable"

\* C14 (as claimed): ParseFights returns an error exactly when the request
\* failed, the status was outside 2xx, or the body could not be parsed; so
\* any 2xx answer with a body that parses gives a nil error.
C14_ErrorOnlyOutside2xx ==
    ParseFightsOver =>
        (returned.err # Nil <=>
            \/ RequestOrParseFailure
            \/ HasStatus(resp) /\ resp.StatusCode \div 100 # 2)

\* C14 (amended): ParseFights returns an error exactly when the request
\* failed, the status was anything but 200 (other 2xx statuses included),
\* or the body could not be parsed; with an error the records are nil, and
\* with no candidate the result is an empty sequence and a nil error.
C14_ErrorUnlessStatus200 ==
    ParseFightsOver =>
        /\ returned.err # Nil <=>
             \/ RequestOrParseFailure
             \/ HasStatus(resp) /\ resp.StatusCode # 200
        /\ returned.err # Nil => returned.fights = Nil
        /\ (returned.err = Nil /\ fightEvents = <<>>) =>
             (returned.fights # Nil /\ Len(returned.fights) = 0)

\* C14 witness: a 204 answer with a readable body has made ParseFights
\* return an error.
C14_Witness ==
    /\ ParseFightsOver
    /\ HasStatus(resp)
    /\ resp.StatusCode = 204
    /\ resp.Body = "html"
    /\ returned.err # Nil

\* C15: the answer of the fights endpoint is 500 with the error text in
\* "details" when ParseFights returned an error, 200 with count 0 and an
\* empty data list when it returned no record and no error, and 200 with
\* the records as data and their number as count otherwise.
C15_ResponseMapping ==
    mpc = "responded" =>
        IF returned.err # Nil
        THEN /\ response.status = 500
             /\ response.details = returned.err.error
        ELSE /\ response.status = 200
             /\ response.count = Len(returned.fights)
             /\ response.data = returned.fights

\* C15 witness: the endpoint has answered 200 with the two records of a
\* two-candidate page.
C15_Witness ==
    /\ mpc = "responded"
    /\ returned.err = Nil
    /\ response.status = 200
    /\ response.count = 2
    /\ Len(response.data) = 2

(***************************************************************************)
(* Dates: one fight row per document, every day token under every month   *)
(***************************************************************************)
MaxDay == 31

\* the decimal text of a day number below one hundred
DayText(d) ==
    IF d < 10 THEN <<Digits[d + 1]>> ELSE <<Digits[(d \div 10) + 1], Digits[(d % 10) + 1]>>

DayRow(d) ==
    FightRow(DayText(d), Cell("boxer_1", <<"J">>, <<>>), <<>>, Cell("boxer_2", <<"K">>, <<>>))

\* the text of a div.month element, and a document without one
MonthTexts == {NoMonth, "March 2025"}

DateDocs == {Document(month, <<<<DayRow(d)>>>>) : month \in MonthTexts, d \in 1..MaxDay}

\* time.Now() on some day of every month of a leap and of a common year
Contexts == {<<y, m, 5>> : y \in {2024, 2025}, m \in 1..12}

InitDates ==
    /\ today \in Contexts
    /\ now = 0
    /\ request = 1
    /\ mpc = "extract"
    /\ doc \in DateDocs
    /\ returned = NoReturn
    /\ response = NoResponse
    /\ resp = [StatusCode |-> 200, Body |-> "html"]
    /\ NewRequestState
    /\ tableSel = <<>>
    /\ rowSel = <<>>
    /\ tableIndex = 0
    /\ rowIndex = 0
    /\ currentYear = 0
    /\ currentMonth = 0
    /\ currentLocation = NoText
    /\ fightEvents = <<>>
    /\ emittedAt = <<>>

SpecDates == InitDates /\ [][NextExtract]_vars

\* the day number written in the date cell of the row an event was built from
DayOf(event) == Atoi(TrimSpace(SelText(FindTd(RowAt(doc.tables, event.Row), "date")))).val

\* the length of month m of year y
DaysIn(y, m) ==
    IF m \in {4, 6, 9, 11} THEN 30
    ELSE IF m # 2 THEN 31
    ELSE IF y % 4 = 0 /\ (y % 100 # 0 \/ y % 400 = 0) THEN 29
    ELSE 28

\* the month after month m of year y
FollowingMonth(y, m) == IF m = 12 THEN <<y + 1, 1>> ELSE <<y, m + 1>>

\* C16 as stated: for every day token d in 1..31 and every year and month
\* context, the produced date is exactly day d of that month and year
C16_ExactDayOfContextMonth ==
    \A i \in 1..Len(fightEvents) :
        fightEvents[i].Date = <<currentYear, currentMonth, DayOf(fightEvents[i])>>

\* C16 amended: the produced date is day d of the context month when the
\* month has a day d; a day past the end of the month is carried into the
\* following month
C16_DayCarriedPastMonthEnd ==
    \A i \in 1..Len(fightEvents) :
        LET d == DayOf(fightEvents[i])
            len == DaysIn(currentYear, currentMonth)
            after == FollowingMonth(currentYear, currentMonth)
        IN  fightEvents[i].Date =
                IF d <= len THEN <<currentYear, currentMonth, d>>
                ELSE <<after[1], after[2], d - len>>

\* day 31 of an April context came out as the first of May
C16_Witness ==
    /\ mpc = "extracted"
    /\ currentMonth = 4
    /\ Len(fightEvents) = 1
    /\ DayOf(fightEvents[1]) = 31
    /\ fightEvents[1].Date = <<currentYear, 5, 1>>

\* the year and month a div.month text names
ElementContext(text) == IF text = "March 2025" THEN <<2025, 3>> ELSE <<0, 0>>

\* C17: the month/year context used for the dates of a page is the one its
\* div.month element names when the element is present and the system
\* month/year only when it is absent, and every row's date is built from it
C17_ContextFromMonthElement ==
    mpc # "extract" =>
        LET context == IF doc.month # NoMonth THEN ElementContext(doc.month)
                       ELSE <<today[1], today[2]>>
        IN  /\ <<currentYear, currentMonth>> = context
            /\ \A i \in 1..Len(fightEvents) :
                   DayOf(fightEvents[i]) <= DaysIn(context[1], context[2]) =>
                       fightEvents[i].Date = <<context[1], context[2], DayOf(fightEvents[i])>>

\* the cell has no non-empty link text and the first line of its text is
\* empty once everything from the first "(" onward is stripped
NameTextIsEmpty(cell) ==
    LET line == TrimSpace(FirstLine(TrimSpace(SelText(cell))))
        idx == IndexOf(line, "(")
    IN  /\ TrimSpace(FirstLinkText(cell)) = NoText
        /\ TrimSpace(IF idx # 0 THEN SubSeq(line, 1, idx - 1) ELSE line) = NoText

\* the rows of the current pass for which the row callback has called
\* extractFighterName
NamedRows ==
    {k \in 1..rowIndex :
        LET row == RowAt(doc.tables, rowSel[k])
        IN  ~IsLocationRow(row) /\ HasFightCells(row)}

\* C18: extractFighterName never returns the empty string, and returns
\* "Unknown Fighter" for a cell without link text whose first text line is
\* empty, also after the part from the first "(" is stripped
C18_SentinelForEmptyName ==
    \A k \in NamedRows :
        \A class \in {"boxer_1", "boxer_2"} :
            LET cell == FindTd(RowAt(doc.tables, rowSel[k]), class)
            IN  /\ extractFighterName(cell) # NoText
                /\ NameTextIsEmpty(cell) => extractFighterName(cell) = UnknownFighter

\* the collector goroutine can still execute results = append(results, ...)
CollectorCanAppend == cpc \in {"select", "append"}

\* C19: the goroutine that called processFightsConcurrently never reads the
\* results slice while the collector goroutine can still append to it; it
\* has read the slice, or the copy sent through resultCollector, once it has
\* returned, also on the path of the outer timeout
C19_NoReadWhileCollectorAppends ==
    mpc = "returned" => ~CollectorCanAppend

\* every row of the document once, in document order
DocumentRows ==
    Concat([t \in 1..Len(doc.tables) |-> FindTrPaths(doc.tables[t], <<t>>)])

\* the row at the path is a fight row: the four cells, no td.place, and two
\* non-empty names
IsFightRowAt(path) ==
    LET row == RowAt(doc.tables, path)
    IN  /\ ~IsLocationRow(row)
        /\ HasFightCells(row)
        /\ extractFighterName(FindTd(row, "boxer_1")) # NoText
        /\ extractFighterName(FindTd(row, "boxer_2")) # NoText

\* C20: extractFightElements returns one candidate for each fight row of the
\* document, in document order: none is omitted and none appears twice,
\* also when a table is nested inside a row of another table
C20_FightRowsOnceInDocumentOrder ==
    mpc = "extracted" =>
        [i \in 1..Len(fightEvents) |-> fightEvents[i].Row]
            = SelectSeq(DocumentRows, IsFightRowAt)

(***************************************************************************)
(* Claims on what a call returns                                          *)
(***************************************************************************)
\* the fields a record takes over from its candidate
FieldsOfEvent(event) ==
    <<event.Date, event.Fighter1, event.Fighter2, event.Result, event.Location>>
FieldsOfFight(fight) ==
    <<fight.date, fight.fighter1, fight.fighter2, fight.result, fight.location>>

\* how many successfully converted candidates, and how many returned
\* records, carry the fields
ConvertedWith(fields) ==
    Cardinality({w \in Workers : ~Failed(w) /\ FieldsOfEvent(fightEvents[w]) = fields})
ReturnedWith(fields) ==
    Cardinality({k \in 1..Len(returned.fights) :
                    returned.fights[k] # Nil /\ FieldsOfFight(returned.fights[k]) = fields})

\* C21: on a fresh Parser, when neither the collector's timeout nor the
\* outer timeout fired, the records returned are, as a multiset of (date,
\* fighter1, fighter2, result, location), those of the successfully
\* converted candidates: none is lost and none is duplicated
C21_ExactMultisetWithoutTimeout ==
    ReturnedWithoutTimeout =>
        /\ \A k \in 1..Len(returned.fights) : returned.fights[k] # Nil
        /\ Len(returned.fights) = Cardinality({w \in Workers : ~Failed(w)})
        /\ \A w \in Workers :
               ReturnedWith(FieldsOfEvent(fightEvents[w]))
                   = ConvertedWith(FieldsOfEvent(fightEvents[w]))

\* C21 witness: two candidates with the same fields were both converted, and
\* their records were returned in the other order
C21_Witness ==
    /\ ReturnedWithoutTimeout
    /\ Len(fightEvents) = 2
    /\ FieldsOfEvent(fightEvents[1]) = FieldsOfEvent(fightEvents[2])
    /\ Len(returned.fights) = 2
    /\ returned.fights[1].id = wid[2]
    /\ returned.fights[2].id = wid[1]

(***************************************************************************)
(* ParseFights called again on the same Parser: idCounter, idMutex,       *)
(* ResultChannel and WaitGroup are the Parser's and outlive a call; here   *)
(* `request` counts the calls on the one Parser. A call begins only after  *)
(* the collector goroutine of the call before has ended.                   *)
(***************************************************************************)
ParseFightsAgain ==
    /\ mpc = "returned"
    /\ request < MaxRequests
    /\ cpc \in {"idle", "closed"}
    /\ request' = request + 1
    /\ mpc' = "extracted"
    /\ returned' = NoReturn
    /\ fightEvents' \in EventSeqs
    /\ emittedAt' = [i \in 1..Len(fightEvents') |-> <<1, i>>]
    /\ wpc' = <<>>
    /\ wid' = <<>>
    /\ wresult' = <<>>
    /\ cpc' = "idle"
    /\ ci' = 0
    /\ cfight' = Nil
    /\ resultsLen' = 0
    /\ resultsArr' = <<>>
    /\ resultCollector' = <<>>
    /\ sent' = <<>>
    /\ timeouts' = 0
    /\ UNCHANGED <<today, now, resp, doc, response, tableSel, rowSel, tableIndex, rowIndex,
                   currentYear, currentMonth, currentLocation, parserVars, issued>>

NextReuse ==
    \/ NextProc
    \/ ParseFightsAgain

SpecReuse == InitProc /\ [][NextReuse]_vars

\* the IDs generateUniqueID has given out during the current call
IssuedInCall == {x.id : x \in {y \in issued : y.request = request}}

\* C22: when a call of processFightsConcurrently returns, ResultChannel
\* holds no outcome, and every record the call returns was made from a
\* candidate of that call, also on a Parser that has served a call before
\* and after timeouts
C22_RecordsFromSameCall ==
    mpc = "returned" =>
        /\ ResultChannel = <<>>
        /\ \A k \in 1..Len(returned.fights) :
               returned.fights[k] # Nil => returned.fights[k].id \in IssuedInCall

====
